---------------------------- MODULE Spec2Model ----------------------------
(***************************************************************************)
(* A model of the two scripts of the results repository:                   *)
(*   scripts/generate_changed_results.py  (the regeneration command)       *)
(*   scripts/verify_pr_updates_results.py (the PR consistency verifier)    *)
(* Strings are sequences of one-character strings, so that the scripts'    *)
(* split / strip / startswith / endswith calls are computed as Python      *)
(* computes them.  Paths are strings relative to ROOT.                     *)
(***************************************************************************)
EXTENDS Naturals, Integers, Sequences, FiniteSets, TLC

VARIABLES
    diff,                   \* the tree difference base..head, as git holds it
    env,                    \* os.environ: BASE_SHA, HEAD_SHA
    args,                   \* the regeneration command's parsed argv
    dirs, files,            \* the filesystem below ROOT: directories, files
    pc,                     \* regeneration command: position in main
    benchmarks_to_process,  \* main: the selected benchmark paths
    changed_submodules,     \* main: result of changed_gitlinks
    bi, toolchains, ti, iter, \* process_benchmarks / execute_runs loop positions
    inflight,               \* external processes started and not yet exited
    log,                    \* history: external invocations and their exits
    out,                    \* history: lines printed to stdout / stderr
    exitCode,               \* process exit status of the regeneration command
    vpc,                    \* verifier: position in main
    gitlinks, changed,      \* verifier: changed_gitlinks, changed_paths results
    gi, failures,           \* verifier: loop index, accumulated failures
    vout, vexit             \* verifier: printed lines, exit status

inVars  == <<diff, env, args>>
fsVars  == <<dirs, files>>
genVars == <<pc, benchmarks_to_process, changed_submodules, bi, toolchains, ti,
             iter, inflight, log, out, exitCode>>
verVars == <<vpc, gitlinks, changed, gi, failures, vout, vexit>>
vars    == <<inVars, fsVars, genVars, verVars>>

---------------------------------------------------------------------------
(* String literals used by the scripts and by git.                         *)

S_benchmarks_slash == <<"b", "e", "n", "c", "h", "m", "a", "r", "k", "s", "/">>
S_benchmarks == <<"b", "e", "n", "c", "h", "m", "a", "r", "k", "s">>
S_rules == <<"r", "u", "l", "e", "s">>
S_rules_slash == <<"r", "u", "l", "e", "s", "/">>
S_metrics == <<"_", "m", "e", "t", "r", "i", "c", "s">>
S_RESULTS_md == <<"R", "E", "S", "U", "L", "T", "S", ".", "m", "d">>
S_slash_RESULTS_md == <<"/", "R", "E", "S", "U", "L", "T", "S", ".", "m", "d">>
S_dot_git == <<".", "g", "i", "t">>
S_dot_runs == <<".", "r", "u", "n", "s">>
S_run_all_sh == <<"r", "u", "n", "_", "a", "l", "l", ".", "s", "h">>
S_run_all == <<"r", "u", "n", "_", "a", "l", "l">>
S_generate_results_py == <<"g", "e", "n", "e", "r", "a", "t", "e", "_", "r", "e", "s", "u", "l", "t", "s", ".", "p", "y">>
S_run_ == <<"r", "u", "n", "_">>
S_160000 == <<"1", "6", "0", "0", "0", "0">>
S_100644 == <<"1", "0", "0", "6", "4", "4">>
S_000000 == <<"0", "0", "0", "0", "0", "0">>
S_TDD == <<"T", "D", "D">>
S_DRY == <<"D", "R", "Y">>
S_KISS == <<"K", "I", "S", "S">>
S_go == <<"g", "o">>
S_py == <<"p", "y">>
S_sha0 == <<"0", "0", "0", "0", "0", "0", "0">>
S_shaA == <<"a", "1", "b", "2", "c", "3", "d">>
S_shaB == <<"e", "4", "f", "5", "a", "6", "b">>
S_NEW == <<"N", "E", "W">>
S_OLD == <<"O", "L", "D">>
S_YAGNI == <<"Y", "A", "G", "N", "I">>
S_js == <<"j", "s">>
S_docs == <<"d", "o", "c", "s">>
S_README == <<"R", "E", "A", "D", "M", "E">>
S_HEAD == <<"H", "E", "A", "D">>
S_vendor_lib == <<"v", "e", "n", "d", "o", "r", "/", "l", "i", "b">>
S_tools_conv == <<"t", "o", "o", "l", "s", "/", "c", "o", "n", "v">>
S_out == <<"o", "u", "t">>
S_old_log == <<"o", "l", "d", ".", "l", "o", "g">>
S_NOTES_md == <<"N", "O", "T", "E", "S", ".", "m", "d">>
S_R100 == <<"R", "1", "0", "0">>

\* The characters in code point order (Python compares str by code point).
Alphabet == <<"\t", "\n", " ", ".", "/", "0", "1", "2", "3", "4", "5", "6", "7", "8", "9", ":", "A", "B", "C", "D", "E", "F", "G", "H", "I", "J", "K", "L", "M", "N", "O", "P", "Q", "R", "S", "T", "U", "V", "W", "X", "Y", "Z", "_", "a", "b", "c", "d", "e", "f", "g", "h", "i", "j", "k", "l", "m", "n", "o", "p", "q", "r", "s", "t", "u", "v", "w", "x", "y", "z">>

Whitespace == {" ", "\t", "\n"}

\* Optional values: None is <<>>, a present value v is <<v>>.
None == <<>>
Some(v) == <<v>>

---------------------------------------------------------------------------
(* Python str operations.                                                  *)

Ord(c) == CHOOSE i \in 1..Len(Alphabet) : Alphabet[i] = c

\* s < t for str
StrLess(s, t) ==
    \E k \in 1..(Len(t)) :
        /\ \A j \in 1..(k-1) : j <= Len(s) /\ s[j] = t[j]
        /\ \/ k = Len(s) + 1
           \/ k <= Len(s) /\ Ord(s[k]) < Ord(t[k])

\* sorted(S) for a set of str
RECURSIVE Sorted(_)
Sorted(S) ==
    IF S = {} THEN <<>>
    ELSE LET m == CHOOSE x \in S : \A y \in S \ {x} : StrLess(x, y)
         IN  <<m>> \o Sorted(S \ {m})

\* s.find(c) + 1
IndexOfChar(s, c) ==
    IF \E i \in 1..Len(s) : s[i] = c
    THEN CHOOSE i \in 1..Len(s) : s[i] = c /\ \A j \in 1..(i-1) : s[j] # c
    ELSE 0

\* s.split(c, 1)
SplitFirst(s, c) ==
    LET i == IndexOfChar(s, c)
    IN  IF i = 0 THEN <<s>>
        ELSE <<SubSeq(s, 1, i-1), SubSeq(s, i+1, Len(s))>>

\* s.splitlines()
RECURSIVE SplitLines(_)
SplitLines(s) ==
    IF s = <<>> THEN <<>>
    ELSE LET i == IndexOfChar(s, "\n")
         IN  IF i = 0 THEN <<s>>
             ELSE <<SubSeq(s, 1, i-1)>> \o SplitLines(SubSeq(s, i+1, Len(s)))

\* s.lstrip(chars)
RECURSIVE LStrip(_, _)
LStrip(s, chars) ==
    IF s # <<>> /\ s[1] \in chars THEN LStrip(Tail(s), chars) ELSE s

\* s.rstrip(chars)
RECURSIVE RStrip(_, _)
RStrip(s, chars) ==
    IF s # <<>> /\ s[Len(s)] \in chars
    THEN RStrip(SubSeq(s, 1, Len(s)-1), chars) ELSE s

\* s.strip()
Strip(s) == RStrip(LStrip(s, Whitespace), Whitespace)

\* s.split()
RECURSIVE SplitWS(_)
SplitWS(s) ==
    LET t == LStrip(s, Whitespace)
    IN  IF t = <<>> THEN <<>>
        ELSE LET n == IF \E i \in 1..Len(t) : t[i] \in Whitespace
                      THEN (CHOOSE i \in 1..Len(t) :
                                /\ t[i] \in Whitespace
                                /\ \A j \in 1..(i-1) : t[j] \notin Whitespace) - 1
                      ELSE Len(t)
             IN  <<SubSeq(t, 1, n)>> \o SplitWS(SubSeq(t, n+1, Len(t)))

\* s.startswith(p), s.endswith(p)
StartsWith(s, p) == Len(p) <= Len(s) /\ SubSeq(s, 1, Len(p)) = p
EndsWith(s, p) == Len(p) <= Len(s) /\ SubSeq(s, Len(s) - Len(p) + 1, Len(s)) = p

\* sep.join(parts)
RECURSIVE Join(_, _)
Join(parts, sep) ==
    IF parts = <<>> THEN <<>>
    ELSE IF Len(parts) = 1 THEN parts[1]
    ELSE parts[1] \o sep \o Join(Tail(parts), sep)

\* s.split(c)
RECURSIVE SplitAll(_, _)
SplitAll(s, c) ==
    LET i == IndexOfChar(s, c)
    IN  IF i = 0 THEN <<s>>
        ELSE <<SubSeq(s, 1, i-1)>> \o SplitAll(SubSeq(s, i+1, Len(s)), c)

\* The members of a sequence
Range(f) == { f[i] : i \in DOMAIN f }

\* The subsequence of U at the indices I
Pick(U, I) ==
    LET F[k \in 0..Len(U)] ==
            IF k = 0 THEN <<>>
            ELSE IF k \in I THEN Append(F[k-1], U[k]) ELSE F[k-1]
    IN  F[Len(U)]

SubSeqsOf(U) == { Pick(U, I) : I \in SUBSET (1..Len(U)) }

---------------------------------------------------------------------------
(* git: the raw and the name-only rendering of a tree difference.  An      *)
(* entry is [old, new, osha, nsha, status, paths]; a rename or copy entry  *)
(* carries two paths (source, destination), every other entry one.         *)

Entry(old, new, osha, nsha, status, paths) ==
    [old |-> old, new |-> new, osha |-> osha, nsha |-> nsha,
     status |-> status, paths |-> paths]

\* One line of `git diff --raw`:  :old new osha nsha status<TAB>path[<TAB>path]
GitRawLine(e) ==
    <<":">> \o e.old \o <<" ">> \o e.new \o <<" ">> \o e.osha \o <<" ">>
        \o e.nsha \o <<" ">> \o e.status \o <<"\t">> \o Join(e.paths, <<"\t">>)

RECURSIVE GitDiffRaw(_)
GitDiffRaw(d) ==
    IF d = <<>> THEN <<>>
    ELSE GitRawLine(Head(d)) \o <<"\n">> \o GitDiffRaw(Tail(d))

\* `git diff --name-only`: one path a line, the destination of a rename
RECURSIVE GitDiffNameOnly(_)
GitDiffNameOnly(d) ==
    IF d = <<>> THEN <<>>
    ELSE Head(d).paths[Len(Head(d).paths)] \o <<"\n">> \o GitDiffNameOnly(Tail(d))

---------------------------------------------------------------------------
(* changed_gitlinks, once per script.                                      *)

\* generate_changed_results.py: the loop body; None when the line is skipped
gen_gitlink_of_line(line) ==
    LET parts == SplitFirst(line, "\t")
    IN  IF Len(parts) # 2 THEN None
        ELSE LET meta == parts[1]
                 path == parts[2]
                 meta_parts == SplitWS(meta)
             IN  IF Len(meta_parts) < 3 THEN None
                 ELSE LET old_mode == LStrip(meta_parts[1], {":"})
                          new_mode == meta_parts[2]
                      IN  IF old_mode = S_160000 /\ new_mode = S_160000
                          THEN Some(Strip(path))
                          ELSE None

gen_changed_gitlinks(raw) ==
    LET lines == SplitLines(raw)
    IN  { gen_gitlink_of_line(lines[i])[1] :
            i \in { j \in 1..Len(lines) : gen_gitlink_of_line(lines[j]) # None } }

\* verify_pr_updates_results.py: the loop body
verify_gitlink_of_line(line) ==
    LET parts == SplitFirst(line, "\t")
    IN  IF Len(parts) # 2 THEN None
        ELSE LET meta == parts[1]
                 path == parts[2]
                 meta_parts == SplitWS(meta)
             IN  IF Len(meta_parts) < 3 THEN None
                 ELSE LET old_mode == LStrip(meta_parts[1], {":"})
                          new_mode == meta_parts[2]
                      IN  IF old_mode = S_160000 /\ new_mode = S_160000
                          THEN Some([path |-> Strip(path)])
                          ELSE None

RECURSIVE verify_gitlinks_of_lines(_)
verify_gitlinks_of_lines(lines) ==
    IF lines = <<>> THEN <<>>
    ELSE verify_gitlink_of_line(Head(lines)) \o verify_gitlinks_of_lines(Tail(lines))

verify_changed_gitlinks(raw) == verify_gitlinks_of_lines(SplitLines(raw))

\* verify_pr_updates_results.py: changed_paths
changed_paths(raw) ==
    LET lines == SplitLines(raw)
    IN  { Strip(lines[i]) : i \in { j \in 1..Len(lines) : Strip(lines[j]) # <<>> } }

---------------------------------------------------------------------------
(* verify_pr_updates_results.py: main.                                     *)

\* A printed line: its fixed text and the values formatted into it
Msg(text, path, prefix) == [text |-> text, path |-> path, prefix |-> prefix]

\* os.getenv(name) or ""
OrEmpty(opt) == IF opt = None THEN <<>> ELSE opt[1]

\* main, line 61: any(p.startswith("rules/") and p.endswith("/RESULTS.md"))
verify_any_results(chg) ==
    \E p \in chg : StartsWith(p, S_rules_slash) /\ EndsWith(p, S_slash_RESULTS_md)

\* line 68 without the rule: any results file counts
verify_rule_results_any(chg, expected_prefix) ==
    \E p \in chg : StartsWith(p, S_rules_slash) /\ EndsWith(p, S_slash_RESULTS_md)

\* main, line 68: any(p.startswith(expected_prefix) and p.endswith("/RESULTS.md"))
verify_rule_results(chg, expected_prefix) ==
    \E p \in chg : StartsWith(p, expected_prefix) /\ EndsWith(p, S_slash_RESULTS_md)

\* main, lines 60-70: the failures one gitlink change appends
verify_check_gitlink(gl, chg) ==
    IF gl.path = S_metrics
    THEN IF ~verify_any_results(chg)
         THEN <<Msg("Changed _metrics submodule but did not update any rules/**/RESULTS.md",
                    gl.path, <<>>)>>
         ELSE <<>>
    ELSE IF StartsWith(gl.path, S_benchmarks_slash)
    THEN LET rule == SplitFirst(gl.path, "/")[2]
             expected_prefix == S_rules_slash \o rule \o <<"/">>
         IN  IF ~verify_rule_results(chg, expected_prefix)
             THEN <<Msg("Changed {gl.path} submodule but did not update any {expected_prefix}*/RESULTS.md",
                        gl.path, expected_prefix)>>
             ELSE <<>>
    ELSE <<>>

\* line 59 leaving the loop at the first failure
verify_loop_fail_fast(i, gls, fails) == i <= Len(gls) /\ fails = <<>>

\* main, line 59: the for loop has a next element
verify_loop_has_next(i, gls, fails) == i <= Len(gls)

verify_base == Strip(OrEmpty(env.BASE_SHA))
verify_head == Strip(OrEmpty(env.HEAD_SHA))

\* lines 44-48
VerifyMissingEnv ==
    /\ vpc = "start"
    /\ verify_base = <<>> \/ verify_head = <<>>
    /\ vout' = Append(vout, Msg("Missing BASE_SHA/HEAD_SHA", <<>>, <<>>))
    /\ vexit' = 2
    /\ vpc' = "done"
    /\ UNCHANGED <<gitlinks, changed, gi, failures>>
    /\ UNCHANGED <<inVars, fsVars, genVars>>

\* lines 50-53
VerifyNoGitlinks ==
    /\ vpc = "start"
    /\ verify_base # <<>> /\ verify_head # <<>>
    /\ gitlinks' = verify_changed_gitlinks(GitDiffRaw(diff))
    /\ gitlinks' = <<>>
    /\ vout' = Append(vout, Msg("No submodule pointer changes detected.", <<>>, <<>>))
    /\ vexit' = 0
    /\ vpc' = "done"
    /\ UNCHANGED <<changed, gi, failures>>
    /\ UNCHANGED <<inVars, fsVars, genVars>>

\* lines 50-57
VerifyBegin ==
    /\ vpc = "start"
    /\ verify_base # <<>> /\ verify_head # <<>>
    /\ gitlinks' = verify_changed_gitlinks(GitDiffRaw(diff))
    /\ gitlinks' # <<>>
    /\ changed' = changed_paths(GitDiffNameOnly(diff))
    /\ failures' = <<>>
    /\ gi' = 1
    /\ vpc' = "loop"
    /\ UNCHANGED <<vout, vexit>>
    /\ UNCHANGED <<inVars, fsVars, genVars>>

\* lines 59-70: one iteration
VerifyLoop ==
    /\ vpc = "loop"
    /\ verify_loop_has_next(gi, gitlinks, failures)
    /\ failures' = failures \o verify_check_gitlink(gitlinks[gi], changed)
    /\ gi' = gi + 1
    /\ UNCHANGED <<vpc, gitlinks, changed, vout, vexit>>
    /\ UNCHANGED <<inVars, fsVars, genVars>>

\* lines 72-76
VerifyReportFailures ==
    /\ vpc = "loop"
    /\ ~verify_loop_has_next(gi, gitlinks, failures)
    /\ failures # <<>>
    /\ vout' = vout \o <<Msg("PR must update results when submodule pointers change:",
                             <<>>, <<>>)>>
                    \o failures
    /\ vexit' = 1
    /\ vpc' = "done"
    /\ UNCHANGED <<gitlinks, changed, gi, failures>>
    /\ UNCHANGED <<inVars, fsVars, genVars>>

\* lines 78-79
VerifyOk ==
    /\ vpc = "loop"
    /\ ~verify_loop_has_next(gi, gitlinks, failures)
    /\ failures = <<>>
    /\ vout' = Append(vout, Msg("OK: submodule changes accompanied by RESULTS.md updates.",
                                <<>>, <<>>))
    /\ vexit' = 0
    /\ vpc' = "done"
    /\ UNCHANGED <<gitlinks, changed, gi, failures>>
    /\ UNCHANGED <<inVars, fsVars, genVars>>

VerifyNext ==
    \/ VerifyMissingEnv
    \/ VerifyNoGitlinks
    \/ VerifyBegin
    \/ VerifyLoop
    \/ VerifyReportFailures
    \/ VerifyOk

---------------------------------------------------------------------------
(* pathlib and the filesystem below ROOT.                                  *)

\* a / b
PJoin(a, b) == a \o <<"/">> \o b

\* Path(p).name, Path(p).parent
LastSlash(p) ==
    IF \E i \in 1..Len(p) : p[i] = "/"
    THEN CHOOSE i \in 1..Len(p) : p[i] = "/" /\ \A j \in (i+1)..Len(p) : p[j] # "/"
    ELSE 0
PathName(p) == SubSeq(p, LastSlash(p) + 1, Len(p))
PathParent(p) == SubSeq(p, 1, LastSlash(p) - 1)

\* p and its ancestors below ROOT
PathAncestors(p) ==
    { SubSeq(p, 1, k) : k \in { j \in 1..Len(p) : j = Len(p) \/ p[j+1] = "/" } }

exists(p) == p \in dirs \cup files
is_dir(p) == p \in dirs
iterdir(p) ==
    { q \in dirs \cup files :
        /\ StartsWith(q, p \o <<"/">>)
        /\ \A j \in (Len(p)+2)..Len(q) : q[j] # "/" }

\* what p.mkdir(parents=True, exist_ok=True) leaves in a set D of directories
Mkdirs(D, p) == D \cup PathAncestors(p)

\* what shutil.rmtree(p) leaves of a set of paths
Rmtree(S, p) == { q \in S : q # p /\ ~StartsWith(q, p \o <<"/">>) }

\* The files and directories of a tree given by its files and empty directories
TreeDirs(fs, ds) ==
    UNION { PathAncestors(PathParent(f)) : f \in { g \in fs : LastSlash(g) > 0 } }
        \cup UNION { PathAncestors(d) : d \in ds }

---------------------------------------------------------------------------
(* generate_changed_results.py                                             *)

RUNS_DIR == S_dot_runs

\* list_rule_benchmarks
is_benchmark(d) == is_dir(d) /\ exists(PJoin(d, S_dot_git))

list_rule_benchmarks ==
    IF ~is_dir(S_benchmarks) THEN <<>>
    ELSE SelectSeq(Sorted(iterdir(S_benchmarks)), is_benchmark)

\* find_toolchains: the loop body for one child
toolchain_of(child) ==
    IF ~is_dir(child) THEN <<>>
    ELSE LET sh == PJoin(child, S_run_all_sh)
             runner == IF ~exists(sh) THEN PJoin(child, S_run_all) ELSE sh
             aggregator == PJoin(child, S_generate_results_py)
         IN  IF exists(runner) /\ exists(aggregator)
             THEN <<[language |-> PathName(child), runner |-> runner,
                     aggregator |-> aggregator]>>
             ELSE <<>>

RECURSIVE toolchains_of(_)
toolchains_of(children) ==
    IF children = <<>> THEN <<>>
    ELSE toolchain_of(Head(children)) \o toolchains_of(Tail(children))

find_toolchains(benchmark_dir) == toolchains_of(Sorted(iterdir(benchmark_dir)))

\* ensure_results_path: the path returned
results_path(rule, language) == PJoin(PJoin(PJoin(S_rules, rule), language), S_RESULTS_md)

\* execute_runs: runs_storage, run_output_dir
runs_storage(rule, language) == PJoin(PJoin(RUNS_DIR, rule), language)

RECURSIVE Decimal(_)
Decimal(n) ==
    IF n < 10 THEN <<Alphabet[Ord("0") + n]>>
    ELSE Decimal(n \div 10) \o <<Alphabet[Ord("0") + (n % 10)]>>

run_output_dir(rule, language, i) ==
    PJoin(runs_storage(rule, language), S_run_ \o Decimal(i))

\* x or y, and truth of an optional str
Truthy(opt) == opt # None /\ opt[1] # <<>>
PyOr(a, b) == IF Truthy(a) THEN a ELSE b

gen_base == PyOr(args.base, env.BASE_SHA)
gen_head == PyOr(args.head, env.HEAD_SHA)

\* main, lines 159-164: the selection of --bench names
RECURSIVE gen_select_bench(_, _)
gen_select_bench(names, benchs) ==
    IF names = <<>> THEN <<>>
    ELSE LET name == Head(names)
             hit == { b \in Range(benchs) : PathName(b) = name }
         IN  (IF hit # {} THEN <<CHOOSE b \in hit : TRUE>> ELSE <<>>)
                 \o gen_select_bench(Tail(names), benchs)

\* main, lines 163-164: the names reported as not found
RECURSIVE gen_not_found(_, _)
gen_not_found(names, benchs) ==
    IF names = <<>> THEN <<>>
    ELSE (IF \E b \in Range(benchs) : PathName(b) = Head(names) THEN <<>>
          ELSE <<Msg("Benchmark not found: {name}", Head(names), <<>>)>>)
             \o gen_not_found(Tail(names), benchs)

is_benchmarks_path(path_str) == StartsWith(path_str, S_benchmarks_slash)

\* main, lines 171-176: the change-driven selection
gen_select_changed(chg) ==
    IF S_metrics \in chg THEN list_rule_benchmarks
    ELSE SelectSeq(Sorted(chg), is_benchmarks_path)

\* One entry of the history of external invocations
Ev(ev, kind, rc, wrote) ==
    [ev |-> ev, kind |-> kind, bi |-> bi, ti |-> ti, iter |-> iter,
     rc |-> rc, wrote |-> wrote]

\* An uncaught exception: traceback on stderr, exit status 1
Raise(text) ==
    /\ out' = Append(out, Msg(text, <<>>, <<>>))
    /\ exitCode' = 1
    /\ pc' = "done"

cur_bench == benchmarks_to_process[bi]
cur_rule == PathName(cur_bench)
cur_tc == toolchains[ti]

\* main, lines 156-157
MainSelectAll ==
    /\ pc = "start"
    /\ args.all
    /\ benchmarks_to_process' = list_rule_benchmarks
    /\ pc' = "selected"
    /\ UNCHANGED <<changed_submodules, bi, toolchains, ti, iter, inflight, log,
                   out, exitCode>>
    /\ UNCHANGED <<inVars, fsVars, verVars>>

\* lines 158-164 tested before --all
MainSelectBench_first ==
    /\ pc = "start"
    /\ Truthy(args.bench)
    /\ benchmarks_to_process' = gen_select_bench(args.bench[1], list_rule_benchmarks)
    /\ out' = out \o gen_not_found(args.bench[1], list_rule_benchmarks)
    /\ pc' = "selected"
    /\ UNCHANGED <<changed_submodules, bi, toolchains, ti, iter, inflight, log,
                   exitCode>>
    /\ UNCHANGED <<inVars, fsVars, verVars>>

\* main, lines 158-164
MainSelectBench ==
    /\ pc = "start"
    /\ ~args.all
    /\ Truthy(args.bench)
    /\ benchmarks_to_process' = gen_select_bench(args.bench[1], list_rule_benchmarks)
    /\ out' = out \o gen_not_found(args.bench[1], list_rule_benchmarks)
    /\ pc' = "selected"
    /\ UNCHANGED <<changed_submodules, bi, toolchains, ti, iter, inflight, log,
                   exitCode>>
    /\ UNCHANGED <<inVars, fsVars, verVars>>

\* main, lines 165-176, base and head both given
MainSelectChanged ==
    /\ pc = "start"
    /\ ~args.all
    /\ ~Truthy(args.bench)
    /\ Truthy(gen_base) /\ Truthy(gen_head)
    /\ changed_submodules' = gen_changed_gitlinks(GitDiffRaw(diff))
    /\ benchmarks_to_process' = gen_select_changed(changed_submodules')
    /\ log' = log \o <<Ev("start", "git diff --raw", 0, FALSE),
                       Ev("exit", "git diff --raw", 0, FALSE)>>
    /\ pc' = "selected"
    /\ UNCHANGED <<bi, toolchains, ti, iter, inflight, out, exitCode>>
    /\ UNCHANGED <<inVars, fsVars, verVars>>

\* lines 165-169 falling back to every benchmark
MainSelectNone_all ==
    /\ pc = "start"
    /\ ~args.all
    /\ ~Truthy(args.bench)
    /\ ~(Truthy(gen_base) /\ Truthy(gen_head))
    /\ benchmarks_to_process' = list_rule_benchmarks
    /\ pc' = "selected"
    /\ UNCHANGED <<changed_submodules, bi, toolchains, ti,
                   iter, inflight, log, out, exitCode>>
    /\ UNCHANGED <<inVars, fsVars, verVars>>

\* main, lines 165-169, base or head missing
MainSelectNone ==
    /\ pc = "start"
    /\ ~args.all
    /\ ~Truthy(args.bench)
    /\ ~(Truthy(gen_base) /\ Truthy(gen_head))
    /\ pc' = "selected"
    /\ UNCHANGED <<benchmarks_to_process, changed_submodules, bi, toolchains, ti,
                   iter, inflight, log, out, exitCode>>
    /\ UNCHANGED <<inVars, fsVars, verVars>>

\* main, lines 178-180
MainNothing ==
    /\ pc = "selected"
    /\ benchmarks_to_process = <<>>
    /\ out' = IF ~(args.all \/ Truthy(args.bench))
              THEN Append(out, Msg("No benchmark submodule changes detected. Use --all or --bench to force run.",
                                   <<>>, <<>>))
              ELSE out
    /\ pc' = "check"
    /\ UNCHANGED <<benchmarks_to_process, changed_submodules, bi, toolchains, ti,
                   iter, inflight, log, exitCode>>
    /\ UNCHANGED <<inVars, fsVars, verVars>>

\* main, lines 181-182: process_benchmarks is entered
MainProcess ==
    /\ pc = "selected"
    /\ benchmarks_to_process # <<>>
    /\ bi' = 1
    /\ pc' = "bench"
    /\ UNCHANGED <<benchmarks_to_process, changed_submodules, toolchains, ti,
                   iter, inflight, log, out, exitCode>>
    /\ UNCHANGED <<inVars, fsVars, verVars>>

\* process_benchmarks, line 130: benchmark_dir.iterdir() raises
BenchDiscoveryFails ==
    /\ pc = "bench"
    /\ bi <= Len(benchmarks_to_process)
    /\ ~is_dir(cur_bench)
    /\ Raise("FileNotFoundError")
    /\ UNCHANGED <<benchmarks_to_process, changed_submodules, bi, toolchains, ti,
                   iter, inflight, log>>
    /\ UNCHANGED <<inVars, fsVars, verVars>>

\* process_benchmarks, lines 132-134
BenchSkip ==
    /\ pc = "bench"
    /\ bi <= Len(benchmarks_to_process)
    /\ is_dir(cur_bench)
    /\ toolchains' = find_toolchains(cur_bench)
    /\ toolchains' = <<>>
    /\ out' = Append(out, Msg("skip: {rule} (no run_all.sh + generate_results.py found)",
                              cur_rule, <<>>))
    /\ bi' = bi + 1
    /\ UNCHANGED <<pc, benchmarks_to_process, changed_submodules, ti, iter,
                   inflight, log, exitCode>>
    /\ UNCHANGED <<inVars, fsVars, verVars>>

\* process_benchmarks, lines 130, 136
BenchEnter ==
    /\ pc = "bench"
    /\ bi <= Len(benchmarks_to_process)
    /\ is_dir(cur_bench)
    /\ toolchains' = find_toolchains(cur_bench)
    /\ toolchains' # <<>>
    /\ ti' = 1
    /\ pc' = "toolchain"
    /\ UNCHANGED <<benchmarks_to_process, changed_submodules, bi, iter, inflight,
                   log, out, exitCode>>
    /\ UNCHANGED <<inVars, fsVars, verVars>>

\* process_benchmarks returns
ProcessDone ==
    /\ pc = "bench"
    /\ bi > Len(benchmarks_to_process)
    /\ pc' = "check"
    /\ UNCHANGED <<benchmarks_to_process, changed_submodules, bi, toolchains, ti,
                   iter, inflight, log, out, exitCode>>
    /\ UNCHANGED <<inVars, fsVars, verVars>>

\* lines 98-103 without the rmtree
ExecuteRunsBegin_keep ==
    /\ pc = "toolchain"
    /\ dirs' = Mkdirs(dirs, runs_storage(cur_rule, cur_tc.language))
    /\ files' = files
    /\ out' = Append(out, Msg("Running {rule}/{language} x{num_runs}...",
                              cur_rule, cur_tc.language))
    /\ iter' = 1
    /\ pc' = "iter"
    /\ UNCHANGED <<benchmarks_to_process, changed_submodules, bi, toolchains, ti,
                   inflight, log, exitCode>>
    /\ UNCHANGED <<inVars, verVars>>

\* execute_runs, lines 98-103
ExecuteRunsBegin ==
    /\ pc = "toolchain"
    /\ LET storage == runs_storage(cur_rule, cur_tc.language)
       IN  /\ dirs' = Mkdirs(Rmtree(dirs, storage), storage)
           /\ files' = Rmtree(files, storage)
    /\ out' = Append(out, Msg("Running {rule}/{language} x{num_runs}...",
                              cur_rule, cur_tc.language))
    /\ iter' = 1
    /\ pc' = "iter"
    /\ UNCHANGED <<benchmarks_to_process, changed_submodules, bi, toolchains, ti,
                   inflight, log, exitCode>>
    /\ UNCHANGED <<inVars, verVars>>

\* line 104 one iteration short
runs_has_next_short(i, num_runs) == i < num_runs

\* execute_runs, line 104: the loop has a next iteration
runs_has_next(i, num_runs) == i <= num_runs

\* execute_runs, lines 105-112: the runner is started
RunnerStart ==
    /\ pc = "iter"
    /\ runs_has_next(iter, args.runs)
    /\ dirs' = dirs \cup {run_output_dir(cur_rule, cur_tc.language, iter)}
    /\ out' = Append(out, Msg("  Iteration {i}/{num_runs}", <<>>, <<>>))
    /\ inflight' = inflight \cup {"runner"}
    /\ log' = Append(log, Ev("start", "runner", 0, FALSE))
    /\ pc' = "runner"
    /\ UNCHANGED <<benchmarks_to_process, changed_submodules, bi, toolchains, ti,
                   iter, exitCode, files>>
    /\ UNCHANGED <<inVars, verVars>>

\* run_cmd, lines 32-33: the runner exited zero, its artefact in its directory
RunnerExitOk ==
    /\ pc = "runner"
    /\ files' = files \cup
          {PJoin(run_output_dir(cur_rule, cur_tc.language, iter), S_out)}
    /\ inflight' = inflight \ {"runner"}
    /\ log' = Append(log, Ev("exit", "runner", 0, FALSE))
    /\ iter' = iter + 1
    /\ pc' = "iter"
    /\ UNCHANGED <<benchmarks_to_process, changed_submodules, bi, toolchains, ti,
                   out, exitCode, dirs>>
    /\ UNCHANGED <<inVars, verVars>>

\* lines 33-37 with the return code ignored
RunnerExitFail_ignored ==
    /\ pc = "runner"
    /\ files' = files
    /\ inflight' = inflight \ {"runner"}
    /\ log' = Append(log, Ev("exit", "runner", 1, FALSE))
    /\ iter' = iter + 1
    /\ pc' = "iter"
    /\ UNCHANGED <<benchmarks_to_process, changed_submodules, bi, toolchains, ti,
                   out, exitCode, dirs>>
    /\ UNCHANGED <<inVars, verVars>>

\* run_cmd, lines 33-37: the runner exited nonzero
RunnerExitFail ==
    /\ pc = "runner"
    /\ inflight' = inflight \ {"runner"}
    /\ log' = Append(log, Ev("exit", "runner", 1, FALSE))
    /\ Raise("RuntimeError: Command failed")
    /\ UNCHANGED <<benchmarks_to_process, changed_submodules, bi, toolchains, ti,
                   iter>>
    /\ UNCHANGED <<inVars, fsVars, verVars>>

\* process_benchmarks, lines 141-142: ensure_results_path, the aggregator is started
AggregatorStart ==
    /\ pc = "iter"
    /\ ~runs_has_next(iter, args.runs)
    /\ dirs' = Mkdirs(dirs, PathParent(results_path(cur_rule, cur_tc.language)))
    /\ out' = Append(out, Msg("Aggregating {input_dir} -> {out_path}",
                              runs_storage(cur_rule, cur_tc.language),
                              results_path(cur_rule, cur_tc.language)))
    /\ inflight' = inflight \cup {"aggregator"}
    /\ log' = Append(log, Ev("start", "aggregator", 0, FALSE))
    /\ pc' = "aggregator"
    /\ UNCHANGED <<benchmarks_to_process, changed_submodules, bi, toolchains, ti,
                   iter, exitCode, files>>
    /\ UNCHANGED <<inVars, verVars>>

\* aggregate_results returns: lines 125, 136, 128
AggregatorExitOk(wrote) ==
    /\ pc = "aggregator"
    /\ files' = IF wrote THEN files \cup {results_path(cur_rule, cur_tc.language)}
                ELSE files
    /\ inflight' = inflight \ {"aggregator"}
    /\ log' = Append(log, Ev("exit", "aggregator", 0, wrote))
    /\ IF ti < Len(toolchains)
       THEN ti' = ti + 1 /\ pc' = "toolchain" /\ bi' = bi
       ELSE bi' = bi + 1 /\ pc' = "bench" /\ ti' = ti
    /\ UNCHANGED <<benchmarks_to_process, changed_submodules, toolchains, iter,
                   out, exitCode, dirs>>
    /\ UNCHANGED <<inVars, verVars>>

\* run_cmd, lines 33-37: the aggregator exited nonzero
AggregatorExitFail(wrote) ==
    /\ pc = "aggregator"
    /\ files' = IF wrote THEN files \cup {results_path(cur_rule, cur_tc.language)}
                ELSE files
    /\ inflight' = inflight \ {"aggregator"}
    /\ log' = Append(log, Ev("exit", "aggregator", 1, wrote))
    /\ Raise("RuntimeError: Command failed")
    /\ UNCHANGED <<benchmarks_to_process, changed_submodules, bi, toolchains, ti,
                   iter, dirs>>
    /\ UNCHANGED <<inVars, verVars>>

\* main, lines 184, 186: no --check
CheckSkip ==
    /\ pc = "check"
    /\ ~args.check
    /\ exitCode' = 0
    /\ pc' = "done"
    /\ UNCHANGED <<benchmarks_to_process, changed_submodules, bi, toolchains, ti,
                   iter, inflight, log, out>>
    /\ UNCHANGED <<inVars, fsVars, verVars>>

\* main, lines 184-185: git diff --exit-code is started
CheckStart ==
    /\ pc = "check"
    /\ args.check
    /\ inflight' = inflight \cup {"git diff --exit-code"}
    /\ log' = Append(log, Ev("start", "git diff --exit-code", 0, FALSE))
    /\ pc' = "checking"
    /\ UNCHANGED <<benchmarks_to_process, changed_submodules, bi, toolchains, ti,
                   iter, out, exitCode>>
    /\ UNCHANGED <<inVars, fsVars, verVars>>

\* main, lines 185-186: the working tree is clean
CheckExitOk ==
    /\ pc = "checking"
    /\ inflight' = inflight \ {"git diff --exit-code"}
    /\ log' = Append(log, Ev("exit", "git diff --exit-code", 0, FALSE))
    /\ exitCode' = 0
    /\ pc' = "done"
    /\ UNCHANGED <<benchmarks_to_process, changed_submodules, bi, toolchains, ti,
                   iter, out>>
    /\ UNCHANGED <<inVars, fsVars, verVars>>

\* run_cmd, lines 33-37: git diff --exit-code exited nonzero
CheckExitFail ==
    /\ pc = "checking"
    /\ inflight' = inflight \ {"git diff --exit-code"}
    /\ log' = Append(log, Ev("exit", "git diff --exit-code", 1, FALSE))
    /\ Raise("RuntimeError: Command failed")
    /\ UNCHANGED <<benchmarks_to_process, changed_submodules, bi, toolchains, ti,
                   iter>>
    /\ UNCHANGED <<inVars, fsVars, verVars>>

Next ==
    \/ MainSelectAll
    \/ MainSelectBench
    \/ MainSelectChanged
    \/ MainSelectNone
    \/ MainNothing
    \/ MainProcess
    \/ BenchDiscoveryFails
    \/ BenchSkip
    \/ BenchEnter
    \/ ProcessDone
    \/ ExecuteRunsBegin
    \/ RunnerStart
    \/ RunnerExitOk
    \/ RunnerExitFail
    \/ AggregatorStart
    \/ \E wrote \in BOOLEAN : AggregatorExitOk(wrote)
    \/ \E wrote \in BOOLEAN : AggregatorExitFail(wrote)
    \/ CheckSkip
    \/ CheckStart
    \/ CheckExitOk
    \/ CheckExitFail

---------------------------------------------------------------------------
(* The inputs: bounds, tree differences, environments, trees on disk.      *)

MaxDiffLen == 4
MaxBenchArgs == 2
MaxRuns == 2

P(segs) == Join(segs, <<"/">>)

BenchPath(rule) == PJoin(S_benchmarks, rule)

\* tree-diff entries as git reports them
E_gitlink(path) == Entry(S_160000, S_160000, S_shaA, S_shaB, <<"M">>, <<path>>)
E_added(path) == Entry(S_000000, S_160000, S_sha0, S_shaA, <<"A">>, <<path>>)
E_deleted(path) == Entry(S_160000, S_000000, S_shaA, S_sha0, <<"D">>, <<path>>)
E_renamed(src, dst) == Entry(S_160000, S_160000, S_shaA, S_shaA, S_R100, <<src, dst>>)
E_blob(path) == Entry(S_100644, S_100644, S_shaA, S_shaB, <<"M">>, <<path>>)
E_to_gitlink(path) == Entry(S_100644, S_160000, S_shaA, S_shaB, <<"T">>, <<path>>)
E_to_blob(path) == Entry(S_160000, S_100644, S_shaA, S_shaB, <<"T">>, <<path>>)

\* The differences of at most MaxDiffLen entries of a universe (in git's order)
DiffsOf(U) == { d \in SubSeqsOf(U) : Len(d) <= MaxDiffLen }

DiffUniverse ==
    << E_gitlink(S_metrics),
       E_gitlink(BenchPath(S_DRY)),
       E_added(BenchPath(S_NEW)),
       E_deleted(BenchPath(S_OLD)),
       E_gitlink(BenchPath(S_TDD)),
       E_renamed(BenchPath(S_KISS), BenchPath(S_YAGNI)),
       E_blob(results_path(S_TDD, S_go)),
       E_to_gitlink(S_tools_conv),
       E_to_blob(S_vendor_lib) >>

VerifyDiffUniverse ==
    << E_gitlink(S_metrics),
       E_gitlink(BenchPath(S_DRY)),
       E_added(BenchPath(S_NEW)),
       E_gitlink(BenchPath(S_TDD)),
       E_renamed(BenchPath(S_KISS), BenchPath(S_YAGNI)),
       E_blob(results_path(S_DRY, S_py)),
       E_blob(PJoin(S_rules, S_RESULTS_md)),
       E_blob(P(<<S_rules, S_TDD, S_go, S_NOTES_md>>)),
       E_blob(results_path(S_TDD, S_go)),
       E_gitlink(S_vendor_lib) >>

GenDiffUniverse ==
    << E_gitlink(S_metrics),
       E_gitlink(BenchPath(S_DRY)),
       E_added(BenchPath(S_NEW)),
       E_gitlink(BenchPath(S_TDD)),
       E_renamed(BenchPath(S_KISS), BenchPath(S_YAGNI)),
       E_blob(results_path(S_TDD, S_go)),
       E_gitlink(S_vendor_lib) >>

\* A value of an environment variable or of a --base / --head flag
Sha == S_shaA
NoEnv == [BASE_SHA |-> None, HEAD_SHA |-> None]

\* The tree of one directory below benchmarks/, by kind: its files and its
\* empty directories
BenchFiles(rule, kind) ==
    LET b == BenchPath(rule)
        tc(lang, runner) == {P(<<b, lang, runner>>), P(<<b, lang, S_generate_results_py>>)}
    IN  CASE kind = "absent" -> {}
          [] kind = "file"   -> {b}
          [] kind = "empty"  -> {}
          [] kind = "plain"  -> tc(S_go, S_run_all_sh)
          [] kind = "one"    -> {PJoin(b, S_dot_git)} \cup tc(S_go, S_run_all_sh)
          [] kind = "two"    -> {PJoin(b, S_dot_git), PJoin(b, S_README),
                                 P(<<b, S_go, S_run_all>>)}
                                    \cup tc(S_go, S_run_all_sh) \cup tc(S_py, S_run_all)
          [] kind = "gitdir" -> {P(<<b, S_dot_git, S_HEAD>>)} \cup tc(S_go, S_run_all_sh)
          [] kind = "none"   -> {PJoin(b, S_dot_git), P(<<b, S_js, S_run_all_sh>>),
                                 P(<<b, S_docs, S_generate_results_py>>)}

BenchDirs(rule, kind) == IF kind = "empty" THEN {BenchPath(rule)} ELSE {}

\* What an earlier pass left: scratch directories, committed results
ScratchFiles(kind) ==
    IF kind = "stale"
    THEN {PJoin(run_output_dir(S_TDD, S_go, 1), S_out),
          PJoin(run_output_dir(S_TDD, S_go, 9), S_out),
          PJoin(runs_storage(S_TDD, S_go), S_old_log)}
    ELSE {}

ResultsFiles(kind) ==
    IF kind = "committed" THEN {results_path(S_TDD, S_go), results_path(S_DRY, S_go)}
    ELSE {}

\* The filesystem with benchmarks/TDD of kind k1 and benchmarks/DRY of kind k2
FsInit(k1, k2, sk, rk) ==
    LET fs == BenchFiles(S_TDD, k1) \cup BenchFiles(S_DRY, k2)
                \cup ScratchFiles(sk) \cup ResultsFiles(rk)
        ds == BenchDirs(S_TDD, k1) \cup BenchDirs(S_DRY, k2)
    IN  /\ files = fs
        /\ dirs = TreeDirs(fs, ds)

GenStart ==
    /\ pc = "start"
    /\ benchmarks_to_process = <<>>
    /\ changed_submodules = {}
    /\ bi = 0 /\ toolchains = <<>> /\ ti = 0 /\ iter = 0
    /\ inflight = {}
    /\ log = <<>>
    /\ out = <<>>
    /\ exitCode = -1

VerifyStart ==
    /\ vpc = "start"
    /\ gitlinks = <<>>
    /\ changed = {}
    /\ gi = 0
    /\ failures = <<>>
    /\ vout = <<>>
    /\ vexit = -1

NoArgs == [all |-> FALSE, bench |-> None, base |-> None, head |-> None,
           check |-> FALSE, runs |-> 1]

\* --base / BASE_SHA (and --head / HEAD_SHA) as <<flag, environment>>
RevChoices == { <<None, None>>, <<None, Some(<<>>)>>, <<None, Some(Sha)>>,
                <<Some(Sha), None>> }

BenchNames == {S_TDD, S_DRY, S_KISS}
BenchArgs == { Some(b) : b \in UNION { [1..k -> BenchNames] : k \in 1..MaxBenchArgs } }

\* Selection flags in every combination, over two trees
InitFlags ==
    /\ \E k \in { <<"one", "plain">>, <<"one", "one">> } : FsInit(k[1], k[2], "none", "none")
    /\ diff = <<E_gitlink(BenchPath(S_DRY))>>
    /\ \E a \in BOOLEAN, b \in {None} \cup BenchArgs,
          rb \in RevChoices \ {<<None, Some(<<>>)>>}, rh \in RevChoices \ {<<None, Some(<<>>)>>} :
        /\ args = [all |-> a, bench |-> b, base |-> rb[1], head |-> rh[1],
                   check |-> FALSE, runs |-> 1]
        /\ env = [BASE_SHA |-> rb[2], HEAD_SHA |-> rh[2]]

\* Change-driven mode over every tree difference
InitChanged ==
    /\ \E k \in { <<"one", "empty">>, <<"absent", "absent">> } :
           FsInit(k[1], k[2], "stale", "committed")
    /\ \E rb \in RevChoices, rh \in RevChoices, c \in BOOLEAN :
        /\ args = [all |-> FALSE, bench |-> None, base |-> rb[1], head |-> rh[1],
                   check |-> c, runs |-> 1]
        /\ env = [BASE_SHA |-> rb[2], HEAD_SHA |-> rh[2]]
        /\ IF Truthy(PyOr(rb[1], rb[2])) /\ Truthy(PyOr(rh[1], rh[2]))
           THEN diff \in DiffsOf(GenDiffUniverse)
           ELSE diff \in { <<>>, <<E_gitlink(BenchPath(S_TDD))>> }

\* Orchestration passes over every tree on disk and run count
InitRuns ==
    /\ \E k1 \in {"one", "two", "gitdir", "none"}, k2 \in {"file", "empty", "one"},
          prior \in { <<"none", "none">>, <<"stale", "committed">> } :
           FsInit(k1, k2, prior[1], prior[2])
    /\ env = NoEnv
    /\ diff = <<>>
    /\ \E a \in { <<TRUE, None>>, <<FALSE, Some(<<S_DRY, S_TDD>>)>>,
                  <<FALSE, Some(<<S_TDD, S_TDD>>)>> },
          c \in BOOLEAN, n \in (-1)..MaxRuns :
        args = [all |-> a[1], bench |-> a[2], base |-> None, head |-> None,
                check |-> c, runs |-> n]

Init ==
    /\ InitFlags \/ InitChanged \/ InitRuns
    /\ GenStart
    /\ VerifyStart

Spec == Init /\ [][Next]_vars

\* The verifier over every environment and tree difference
EnvChoices == { None, Some(<<" ">>), Some(Sha) }

VerifyInit ==
    /\ env \in [BASE_SHA : EnvChoices, HEAD_SHA : EnvChoices]
    /\ diff \in DiffsOf(VerifyDiffUniverse)
    /\ args = NoArgs
    /\ dirs = {} /\ files = {}
    /\ GenStart
    /\ VerifyStart

VerifySpec == VerifyInit /\ [][VerifyNext]_vars

\* changed_gitlinks of both scripts over every tree difference
DiffGen ==
    /\ pc = "start"
    /\ changed_submodules' = gen_changed_gitlinks(GitDiffRaw(diff))
    /\ pc' = "selected"
    /\ UNCHANGED <<benchmarks_to_process, bi, toolchains, ti, iter, inflight, log,
                   out, exitCode>>
    /\ UNCHANGED <<inVars, fsVars, verVars>>

DiffVerify ==
    /\ vpc = "start"
    /\ gitlinks' = verify_changed_gitlinks(GitDiffRaw(diff))
    /\ vpc' = "loop"
    /\ UNCHANGED <<changed, gi, failures, vout, vexit>>
    /\ UNCHANGED <<inVars, fsVars, genVars>>

DiffInit ==
    /\ diff \in DiffsOf(DiffUniverse)
    /\ env = NoEnv
    /\ args = NoArgs
    /\ dirs = {} /\ files = {}
    /\ GenStart
    /\ VerifyStart

DiffNext == DiffGen \/ DiffVerify

DiffSpec == DiffInit /\ [][DiffNext]_vars

---------------------------------------------------------------------------
(* Properties of changed_gitlinks (under DiffSpec).                        *)

BothGitlink(e) == e.old = S_160000 /\ e.new = S_160000

\* C9: changed_gitlinks returns exactly the paths of the entries whose old and
\* new mode are both 160000 (every returned string is a path of such an entry,
\* every such entry has a path returned, no path of another entry is returned),
\* and both scripts return the same paths.
C9_GitlinksExact ==
    /\ pc = "selected" =>
        /\ \A s \in changed_submodules :
              \E e \in Range(diff) : BothGitlink(e) /\ s \in Range(e.paths)
        /\ \A e \in Range(diff) :
              BothGitlink(e) => \E s \in changed_submodules : s \in Range(e.paths)
        /\ \A e \in Range(diff) :
              ~BothGitlink(e) => Range(e.paths) \cap changed_submodules = {}
    /\ (pc = "selected" /\ vpc = "loop") =>
          { gitlinks[i].path : i \in DOMAIN gitlinks } = changed_submodules

\* What holds of the code: entries that carry one path (every status but
\* rename and copy) are returned exactly when both modes are 160000, and the
\* two scripts agree on every difference.
C9_SinglePathEntries ==
    /\ pc = "selected" =>
          \A e \in Range(diff) :
              Len(e.paths) = 1 => (e.paths[1] \in changed_submodules <=> BothGitlink(e))
    /\ (pc = "selected" /\ vpc = "loop") =>
          { gitlinks[i].path : i \in DOMAIN gitlinks } = changed_submodules

---------------------------------------------------------------------------
(* Properties of the verifier (under VerifySpec).                          *)

Segs(p) == SplitAll(p, "/")

\* The paths the range changed
DiffNames == { e.paths[Len(e.paths)] : e \in Range(diff) }

\* rules/*/**/RESULTS.md
GlobAnyRuleResults(p) ==
    LET s == Segs(p) IN Len(s) >= 3 /\ s[1] = S_rules /\ s[Len(s)] = S_RESULTS_md

\* rules/**/RESULTS.md
GlobRulesResults(p) ==
    LET s == Segs(p) IN Len(s) >= 2 /\ s[1] = S_rules /\ s[Len(s)] = S_RESULTS_md

\* rules/{rule}/**/RESULTS.md
GlobRuleResults(p, rule) ==
    LET s == Segs(p)
        r == Segs(rule)
    IN  /\ Len(s) >= Len(r) + 2
        /\ s[1] = S_rules
        /\ SubSeq(s, 2, Len(r) + 1) = r
        /\ s[Len(s)] = S_RESULTS_md

RuleOf(path) == SubSeq(path, Len(S_benchmarks_slash) + 1, Len(path))

\* A gitlink change is paired, as the claim states it
PairedAsClaimed(path) ==
    IF path = S_metrics THEN \E p \in DiffNames : GlobAnyRuleResults(p)
    ELSE IF StartsWith(path, S_benchmarks_slash)
    THEN \E p \in DiffNames : GlobRuleResults(p, RuleOf(path))
    ELSE TRUE

\* A gitlink change is paired, with rules/**/RESULTS.md for _metrics
Paired(path) ==
    IF path = S_metrics THEN \E p \in DiffNames : GlobRulesResults(p)
    ELSE IF StartsWith(path, S_benchmarks_slash)
    THEN \E p \in DiffNames : GlobRuleResults(p, RuleOf(path))
    ELSE TRUE

NonBlank(opt) == opt # None /\ \E i \in DOMAIN opt[1] : opt[1][i] \notin Whitespace
EnvGiven == NonBlank(env.BASE_SHA) /\ NonBlank(env.HEAD_SHA)

\* C3 as stated: with BASE_SHA and HEAD_SHA set the verifier exits 0 iff every
\* gitlink change is paired (_metrics with some rules/*/**/RESULTS.md,
\* benchmarks/{rule} with some rules/{rule}/**/RESULTS.md), and 1 otherwise.
C3_ExitIffPairedAsClaimed ==
    (vpc = "done" /\ EnvGiven) =>
        /\ vexit \in {0, 1}
        /\ vexit = 0 <=> \A i \in DOMAIN gitlinks : PairedAsClaimed(gitlinks[i].path)

\* C3 amended: the same with _metrics paired by any changed path that matches
\* rules/**/RESULTS.md, rules/RESULTS.md included.
C3_ExitIffPaired ==
    (vpc = "done" /\ EnvGiven) =>
        /\ vexit \in {0, 1}
        /\ vexit = 0 <=> \A i \in DOMAIN gitlinks : Paired(gitlinks[i].path)

C3_Witness ==
    /\ vpc = "done" /\ vexit = 0 /\ EnvGiven
    /\ \E i \in DOMAIN gitlinks : gitlinks[i].path = S_metrics
    /\ \E i \in DOMAIN gitlinks : gitlinks[i].path = BenchPath(S_TDD)
    /\ results_path(S_DRY, S_py) \notin DiffNames

\* The gitlink changes that lack their results update, in order
RECURSIVE UnpairedOf(_)
UnpairedOf(gls) ==
    IF gls = <<>> THEN <<>>
    ELSE (IF Paired(Head(gls).path) THEN <<>> ELSE <<Head(gls).path>>)
            \o UnpairedOf(Tail(gls))

\* C8: the verifier is not fail-fast: when it exits 1 it has examined every
\* gitlink change, and its report holds one violation for every unpaired
\* gitlink change, in the order of the gitlink changes.
C8_AllViolationsReported ==
    (vpc = "done" /\ vexit = 1) =>
        /\ gi = Len(gitlinks) + 1
        /\ [i \in DOMAIN failures |-> failures[i].path] = UnpairedOf(gitlinks)
        /\ Len(failures) = Cardinality({ i \in DOMAIN gitlinks : ~Paired(gitlinks[i].path) })
        /\ SubSeq(vout, 2, Len(vout)) = failures

C8_Witness ==
    /\ vpc = "done" /\ vexit = 1
    /\ Len(failures) = 2
    /\ Len(gitlinks) >= 3
    /\ ~Paired(gitlinks[1].path)

---------------------------------------------------------------------------
(* Properties of the regeneration command (under Spec).                    *)

Last(q) == q[Len(q)]
Discovered == Range(list_rule_benchmarks)

\* base and head each given by flag or environment
PairAvailable ==
    /\ Truthy(args.base) \/ Truthy(env.BASE_SHA)
    /\ Truthy(args.head) \/ Truthy(env.HEAD_SHA)

ChangeDriven == ~args.all /\ args.bench = None /\ PairAvailable
NoCriteria == ~args.all /\ args.bench = None /\ ~PairAvailable

StrictlySorted(q) == \A i \in DOMAIN q : \A j \in DOMAIN q : i < j => StrLess(q[i], q[j])

\* C1: in change-driven mode the selection is every discovered
\* benchmark when _metrics is among the changed gitlink paths, and otherwise
\* exactly the discovered benchmarks whose path is among them.
C1_SelectionAsClaimed ==
    (pc # "start" /\ ChangeDriven) =>
        IF S_metrics \in changed_submodules
        THEN benchmarks_to_process = list_rule_benchmarks
        ELSE Range(benchmarks_to_process)
                = { b \in Discovered : b \in changed_submodules }

\* What holds of the code: otherwise the selection is exactly the changed
\* gitlink paths that start with benchmarks/, in sorted order, discovered or
\* not; a diff whose only changed gitlink is benchmarks/TDD selects that.
C1_SelectionByPrefix ==
    (pc # "start" /\ ChangeDriven) =>
        /\ IF S_metrics \in changed_submodules
           THEN benchmarks_to_process = list_rule_benchmarks
           ELSE /\ Range(benchmarks_to_process)
                     = { q \in changed_submodules : StartsWith(q, S_benchmarks_slash) }
                /\ StrictlySorted(benchmarks_to_process)
        /\ changed_submodules = {BenchPath(S_TDD)}
              => benchmarks_to_process = <<BenchPath(S_TDD)>>

NoDiffConsulted ==
    /\ changed_submodules = {}
    /\ \A i \in DOMAIN log : log[i].kind # "git diff --raw"

IsNotFoundMsg(m) == m.text = "Benchmark not found: {name}"

\* C5: --all selects every discovered benchmark whatever else is given; else
\* --bench selects only the discovered benchmarks named, reports each unmatched
\* name, does not fail because of one, and never consults the diff; only with
\* neither does the base/head pair drive the selection.
C5_Precedence ==
    pc # "start" =>
        LET discovered == list_rule_benchmarks
            names == { PathName(discovered[i]) : i \in DOMAIN discovered }
            IsUnmatchedName(name) == name \notin names
        IN
        /\ args.all =>
              benchmarks_to_process = discovered /\ NoDiffConsulted
        /\ (~args.all /\ args.bench # None) =>
              /\ Range(benchmarks_to_process)
                    = { b \in Range(discovered) : PathName(b) \in Range(args.bench[1]) }
              /\ LET reported == SelectSeq(out, IsNotFoundMsg)
                 IN  [i \in DOMAIN reported |-> reported[i].path]
                        = SelectSeq(args.bench[1], IsUnmatchedName)
              /\ NoDiffConsulted
              /\ (pc = "done" /\ exitCode # 0) => (log # <<>> /\ Last(log).rc # 0)
        /\ (~args.all /\ args.bench = None) =>
              /\ PairAvailable <=> \E i \in DOMAIN log : log[i].kind = "git diff --raw"
              /\ ~PairAvailable => benchmarks_to_process = <<>>

C5_Witness ==
    /\ pc = "done" /\ exitCode = 0
    /\ ~args.all /\ args.bench # None /\ PairAvailable
    /\ Len(args.bench[1]) = 2
    /\ Len(benchmarks_to_process) = 1
    /\ \E i \in DOMAIN out : IsNotFoundMsg(out[i])

NothingDetectedReported ==
    \E i \in DOMAIN out :
        out[i].text = "No benchmark submodule changes detected. Use --all or --bench to force run."

NoRunnerNoAggregator ==
    \A i \in DOMAIN log : log[i].kind \notin {"runner", "aggregator"}

\* C6 as stated: with no selection flag and no complete base/head pair the
\* command invokes no runner and no aggregator, reports that nothing was
\* detected, and exits 0.
C6_NoWorkAsClaimed ==
    (NoCriteria /\ pc = "done") =>
        /\ NoRunnerNoAggregator
        /\ NothingDetectedReported
        /\ exitCode = 0

\* C6 amended: ... and exits 0, unless --check was given and
\* git diff --exit-code exits nonzero, when it exits 1; no file changes.
C6_NoWork ==
    /\ [](NoCriteria => NoRunnerNoAggregator)
    /\ []((NoCriteria /\ pc = "done") =>
            /\ NothingDetectedReported
            /\ exitCode = IF args.check /\ log # <<>> /\ Last(log).rc # 0 THEN 1 ELSE 0
            /\ Len(log) = IF args.check THEN 2 ELSE 0)
    /\ [][NoCriteria => UNCHANGED fsVars]_vars

C6_Witness ==
    /\ NoCriteria /\ pc = "done" /\ exitCode = 0
    /\ args.check
    /\ NothingDetectedReported
    /\ dirs # {}

RunnerFailed ==
    \E i \in DOMAIN log : log[i].kind = "runner" /\ log[i].ev = "exit" /\ log[i].rc # 0

\* C2: a runner that exits nonzero aborts the pass at once: the command ends
\* with status 1, nothing is invoked after the failing runner, the aggregator
\* of its toolchain was not invoked for it, and no file (the results file of
\* the toolchain included) is created or changed from the failure on.
C2_RunnerFailureAborts ==
    /\ [](RunnerFailed =>
            LET f == Last(log)
            IN  /\ f.kind = "runner" /\ f.ev = "exit" /\ f.rc # 0
                /\ pc = "done" /\ exitCode = 1
                /\ inflight = {}
                /\ \A i \in DOMAIN log :
                      log[i].kind = "aggregator" => <<log[i].bi, log[i].ti>> # <<f.bi, f.ti>>
                /\ \A i \in DOMAIN log :
                      log[i].bi < f.bi \/ (log[i].bi = f.bi /\ log[i].ti <= f.ti))
    /\ [][RunnerFailed' => (UNCHANGED fsVars /\ (RunnerFailed => UNCHANGED log))]_vars

C2_Witness ==
    /\ RunnerFailed
    /\ Last(log).iter = 2 /\ Last(log).ti = 2
    /\ results_path(S_TDD, S_py) \notin files
    /\ results_path(S_TDD, S_go) \in files

\* C4: after a pass that completes successfully the results file exists for
\* every toolchain discovered in every selected benchmark.
C4_ResultsExist ==
    (pc = "done" /\ exitCode = 0) =>
        \A i \in DOMAIN benchmarks_to_process :
            \A tc \in Range(find_toolchains(benchmarks_to_process[i])) :
                results_path(PathName(benchmarks_to_process[i]), tc.language) \in files

\* What holds of the code: the directory of the results file exists.
C4_ResultsDirExist ==
    (pc = "done" /\ exitCode = 0) =>
        \A i \in DOMAIN benchmarks_to_process :
            \A tc \in Range(find_toolchains(benchmarks_to_process[i])) :
                PathParent(results_path(PathName(benchmarks_to_process[i]), tc.language))
                    \in dirs

ExecuteRunsReturned == (pc = "iter" /\ iter > args.runs) \/ pc = "aggregator"

RunDirs(storage, n) == { storage \o <<"/">> \o S_run_ \o Decimal(i) : i \in 1..n }

\* C7: when execute_runs returns, the scratch area of the pair holds exactly
\* the directories run_1 .. run_N and nothing of an earlier pass.
C7_ScratchExact ==
    ExecuteRunsReturned =>
        LET storage == S_dot_runs \o <<"/">> \o cur_rule \o <<"/">> \o cur_tc.language
            below == { q \in dirs \cup files : StartsWith(q, storage \o <<"/">>) }
        IN  /\ storage \in dirs
            /\ { q \in below : PathParent(q) = storage } = RunDirs(storage, args.runs)
            /\ RunDirs(storage, args.runs) \subseteq dirs
            /\ Cardinality(RunDirs(storage, args.runs))
                  = IF args.runs > 0 THEN args.runs ELSE 0
            /\ \A q \in below : q \in RunDirs(storage, args.runs)
                                   \/ PathParent(q) \in RunDirs(storage, args.runs)

C7_Witness ==
    /\ pc = "aggregator"
    /\ cur_rule = S_TDD /\ cur_tc.language = S_go
    /\ args.runs = MaxRuns
    /\ ~is_dir(BenchPath(S_DRY))
    /\ results_path(S_DRY, S_go) \in files

IsWork(e) == e.kind \in {"runner", "aggregator"}
SameCall(e, f) == e.kind = f.kind /\ e.bi = f.bi /\ e.ti = f.ti /\ e.iter = f.iter
Before(e, f) == e.bi < f.bi \/ (e.bi = f.bi /\ e.ti < f.ti)

\* C10: external invocations are strictly sequential and ordered: one process
\* at a time, each started only after the one before exited zero; the runner
\* iterations of a toolchain in the order 1..N; its aggregator only after all
\* N exited zero; nothing of a later toolchain or benchmark before the
\* aggregator of the current one completed; the --check diff last, after
\* every selected benchmark was processed.
C10_Sequential ==
    /\ Cardinality(inflight) <= 1
    /\ inflight = IF Len(log) % 2 = 1 THEN {Last(log).kind} ELSE {}
    /\ \A k \in DOMAIN log :
        /\ log[k].ev = IF k % 2 = 1 THEN "start" ELSE "exit"
        /\ k % 2 = 0 => SameCall(log[k-1], log[k])
        /\ (k % 2 = 1 /\ k > 1) => log[k-1].rc = 0
        /\ (log[k].ev = "start" /\ log[k].kind = "runner") =>
              IF log[k].iter = 1
              THEN \A j \in 1..(k-1) :
                      ~(log[j].kind = "runner" /\ log[j].bi = log[k].bi /\ log[j].ti = log[k].ti)
              ELSE /\ k >= 3
                   /\ log[k-2].kind = "runner"
                   /\ log[k-2].bi = log[k].bi /\ log[k-2].ti = log[k].ti
                   /\ log[k-2].iter = log[k].iter - 1
        /\ (log[k].ev = "start" /\ log[k].kind = "aggregator") =>
              { log[j].iter : j \in { m \in 1..(k-1) :
                    /\ log[m].kind = "runner" /\ log[m].ev = "exit" /\ log[m].rc = 0
                    /\ log[m].bi = log[k].bi /\ log[m].ti = log[k].ti } }
                 = 1..args.runs
        /\ (log[k].ev = "start" /\ IsWork(log[k])) =>
              \A j \in 1..(k-1) :
                  (IsWork(log[j]) /\ (log[j].bi # log[k].bi \/ log[j].ti # log[k].ti)) =>
                      /\ Before(log[j], log[k])
                      /\ \E m \in 1..(k-1) :
                            /\ log[m].kind = "aggregator" /\ log[m].ev = "exit"
                            /\ log[m].rc = 0
                            /\ log[m].bi = log[j].bi /\ log[m].ti = log[j].ti
        /\ (log[k].ev = "start" /\ log[k].kind = "git diff --exit-code") =>
              /\ k >= Len(log) - 1
              /\ args.check
              /\ pc \in {"checking", "done"}
              /\ \A b \in DOMAIN benchmarks_to_process :
                    \A t \in DOMAIN find_toolchains(benchmarks_to_process[b]) :
                        \E m \in 1..(k-1) :
                            /\ log[m].kind = "aggregator" /\ log[m].ev = "exit"
                            /\ log[m].rc = 0 /\ log[m].bi = b /\ log[m].ti = t

C10_Witness ==
    /\ pc = "done" /\ exitCode = 0 /\ args.check
    /\ args.runs = MaxRuns
    /\ Cardinality({ <<log[k].bi, log[k].ti>> : k \in { m \in DOMAIN log : IsWork(log[m]) } }) >= 3

=============================================================================
